---- MODULE Spec2Model ----
(***************************************************************************)
(* Model of backend/app.py: the /chat endpoint of the therapy bot, its     *)
(* crisis keyword classifier, the crisis resource table and the wrapper    *)
(* around the hosted generation model.                                     *)
(*                                                                         *)
(* One behaviour is the handling of one HTTP request.  Text is modelled by *)
(* TLA+ strings and the string functions of the code (lower, strip, the    *)
(* substring test "in", re.sub of asterisk runs) are computed character by *)
(* character.                                                              *)
(***************************************************************************)
EXTENDS Integers, Sequences, FiniteSets, TLC

VARIABLES
    pc,               \* "idle" | "generating" | "done": position of chat()
    request,          \* the HTTP request being handled
    user_input,       \* local of chat(): the stripped message
    is_crisis,        \* local of chat(): verdict of is_crisis_message
    crisis_type,      \* local of chat(): key into CRISIS_RESOURCES, or None
    CRISIS_RESOURCES, \* the module-level crisis resource table
    upstream,         \* state of the model.generate_content call
    model_text,       \* response.text of the generation model, once returned
    generate_calls,   \* number of model.generate_content invocations
    classifier_calls, \* number of is_crisis_message invocations
    replies           \* HTTP replies sent for the request, in order

vars == <<pc, request, user_input, is_crisis, crisis_type, CRISIS_RESOURCES,
          upstream, model_text, generate_calls, classifier_calls, replies>>

-----------------------------------------------------------------------------
(* Bounds *)

\* A message is the concatenation of at most MaxFrags fragments.
MaxFrags == 2

-----------------------------------------------------------------------------
(* Python string functions *)

None == "<None>"

Char(s, i) == SubSeq(s, i, i)

UpperChars == "ABCDEFGHIJKLMNOPQRSTUVWXYZ"
LowerChars == "abcdefghijklmnopqrstuvwxyz"

\* str.lower() on one character
LowerChar(c) ==
    IF \E i \in 1..Len(UpperChars) : Char(UpperChars, i) = c
    THEN Char(LowerChars, CHOOSE i \in 1..Len(UpperChars) : Char(UpperChars, i) = c)
    ELSE c

\* str.lower()
RECURSIVE lower(_)
lower(s) ==
    IF Len(s) = 0 THEN "" ELSE LowerChar(Char(s, 1)) \o lower(Tail(s))

\* the characters str.strip() removes
Whitespace == {" ", "\t", "\n"}

RECURSIVE lstrip(_)
lstrip(s) ==
    IF Len(s) > 0 /\ Char(s, 1) \in Whitespace THEN lstrip(Tail(s)) ELSE s

RECURSIVE rstrip(_)
rstrip(s) ==
    IF Len(s) > 0 /\ Char(s, Len(s)) \in Whitespace
    THEN rstrip(SubSeq(s, 1, Len(s) - 1))
    ELSE s

\* strip() left out: the message is used as it arrived
strip_omitted(s) == s

\* str.strip()
strip(s) == rstrip(lstrip(s))

\* sub in s
In(sub, s) ==
    \E i \in 1..(Len(s) - Len(sub) + 1) : SubSeq(s, i, i + Len(sub) - 1) = sub

\* re.sub(r'\*+', '', s)
RECURSIVE re_sub_asterisks(_)
re_sub_asterisks(s) ==
    IF Len(s) = 0 THEN ""
    ELSE IF Char(s, 1) = "*" THEN re_sub_asterisks(Tail(s))
    ELSE Char(s, 1) \o re_sub_asterisks(Tail(s))

-----------------------------------------------------------------------------
(* Crisis resources and the classifier *)

SuicideResponse ==
    "I'm deeply concerned about you. Please call the 988 Suicide & Crisis Lifeline now at 988 (US) or your local emergency number."

SelfHarmResponse ==
    "Your safety matters. Please reach out to someone you trust or text HOME to 741741 to connect with a crisis counselor."

CrisisResourcesTable ==
    [k \in {"suicide", "self-harm"} |->
        IF k = "suicide"
        THEN [response  |-> SuicideResponse,
              resources |-> <<"988 Suicide & Crisis Lifeline",
                              "Crisis Text Line: Text HOME to 741741">>]
        ELSE [response  |-> SelfHarmResponse,
              resources |-> <<"Crisis Text Line: Text HOME to 741741">>]]

\* the indicator list with its last entry dropped
crisis_indicators_short ==
    <<"kill myself", "end it all", "want to die",
      "cut myself", "self harm", "hurt myself",
      "suicide">>

crisis_indicators ==
    <<"kill myself", "end it all", "want to die",
      "cut myself", "self harm", "hurt myself",
      "suicide", "ending my life">>

\* the classifier without the case fold of the text
is_crisis_message_case_sensitive(text) ==
    \E i \in 1..Len(crisis_indicators) : In(crisis_indicators[i], text)

is_crisis_message(text) ==
    \E i \in 1..Len(crisis_indicators) : In(crisis_indicators[i], lower(text))

\* the category keywords conflated with the flag keywords
suicide_words_conflated ==
    <<"kill myself", "end it all", "want to die",
      "cut myself", "self harm", "hurt myself",
      "suicide", "ending my life">>

suicide_words == <<"suicide", "die", "end it">>

\* "suicide" if any(word in user_input.lower() for word in [...]) else "self-harm"
select_crisis_type(text) ==
    IF \E i \in 1..Len(suicide_words) : In(suicide_words[i], lower(text))
    THEN "suicide"
    ELSE "self-harm"

-----------------------------------------------------------------------------
(* Requests *)

Fragments ==
    <<"I want to ", "kill myself", "KILL MYSELF", "end it", " all",
      "want to die", "cut myself", "Self Harm", "hurt myself", "SuIcIdE",
      "ending my life", "diet", "hello", " ", "\t">>

RECURSIVE Concat(_)
Concat(fs) == IF Len(fs) = 0 THEN "" ELSE Head(fs) \o Concat(Tail(fs))

\* the message strings a request may carry
Messages ==
    { Concat(fs) : fs \in UNION { [1..n -> {Fragments[i] : i \in 1..Len(Fragments)}] : n \in 0..MaxFrags } }

\* what request.get_json() yields: a parse failure, or a JSON value
Unparseable == [type |-> "unparseable", has_message |-> FALSE, message |-> [type |-> "null", value |-> ""]]

JsonString(s) == [type |-> "string", value |-> s]
JsonNull      == [type |-> "null", value |-> ""]
JsonNumber    == [type |-> "number", value |-> "5"]
JsonArray     == [type |-> "array", value |-> "[]"]

JsonObject(has, msg) == [type |-> "object", has_message |-> has, message |-> msg]
JsonNonObject(t)     == [type |-> t, has_message |-> FALSE, message |-> JsonNull]

Bodies ==
    {Unparseable}
    \cup {JsonNonObject(t) : t \in {"null", "number", "array", "string"}}
    \cup {JsonObject(FALSE, JsonNull)}
    \cup {JsonObject(TRUE, v) : v \in {JsonNull, JsonNumber, JsonArray}}
    \cup {JsonObject(TRUE, JsonString(m)) : m \in Messages}

\* is_json is the declared content type; the body is parsed only by get_json()
Requests == [is_json : BOOLEAN, body : Bodies]

\* the request context before a request has arrived
NoRequest == [is_json |-> FALSE, body |-> JsonNonObject("unbound")]

\* the texts response.text may hold
ModelTexts ==
    {"", " ", "\n", "*", "**", " ** ", "* *\t", "I hear you.", "**I hear you.** ", " I *hear* you\n"}

-----------------------------------------------------------------------------
(* Replies *)

JsonInputRequired == [status |-> 400, body |-> [error |-> "JSON input required"]]

HereWhenReady == [status |-> 200, body |-> [response |-> "I'm here when you're ready to talk"]]

FallbackText == "I'm having trouble responding. Could you rephrase that or try again later?"

UnableText == "I'm unable to respond properly right now. Please try again later."

\* the normal return of chat() with the resources left empty
jsonify_chat_no_resources(response, crisis, resources) ==
    [status |-> 200,
     body   |-> [response |-> response, is_crisis |-> crisis,
                 resources |-> <<>>, success |-> TRUE]]

\* the jsonify(...) of the normal return of chat()
jsonify_chat(response, crisis, resources) ==
    [status |-> 200,
     body   |-> [response |-> response, is_crisis |-> crisis,
                 resources |-> resources, success |-> TRUE]]

\* the except branch of chat() returning without the 500 status
chat_except_default_status == [status |-> 200, body |-> [response |-> UnableText, success |-> FALSE]]

\* the except branch of chat()
chat_except == [status |-> 500, body |-> [response |-> UnableText, success |-> FALSE]]

\* the except branch of generate_response()
generate_response_except == FallbackText

\* the exception of the generation call escaping generate_response into the
\* except branch of chat()
chat_after_raise_uncaught(crisis) == chat_except

\* what chat() returns once the generation call has raised: the exception is
\* caught inside generate_response, which returns the fallback text
chat_after_raise(crisis) == jsonify_chat(generate_response_except, crisis, <<>>)

\* the post-processing of generate_response(): empty text raises ValueError
\* into the except branch, any other text is cleaned and stripped
generate_response_clean(text) ==
    IF text = "" THEN generate_response_except
    ELSE strip(re_sub_asterisks(text))

-----------------------------------------------------------------------------
(* The handler *)

Init ==
    /\ pc = "idle"
    /\ request = NoRequest
    /\ user_input = None
    /\ is_crisis = FALSE
    /\ crisis_type = None
    /\ CRISIS_RESOURCES = CrisisResourcesTable
    /\ upstream = "idle"
    /\ model_text = None
    /\ generate_calls = 0
    /\ classifier_calls = 0
    /\ replies = <<>>

\* chat() returns reply r
Return(r) ==
    /\ replies' = Append(replies, r)
    /\ pc' = "done"

\* data.get('message', '').strip() raises AttributeError unless data is an
\* object whose message is absent or a string
message_raises(body) ==
    \/ body.type # "object"
    \/ body.has_message /\ body.message.type # "string"

message_of(body) == IF body.has_message THEN body.message.value ELSE ""

\* POST /chat with request req: chat() from its entry to its return or to the
\* model.generate_content call
Chat(req) ==
    /\ pc = "idle"
    /\ request' = req
    /\ UNCHANGED <<CRISIS_RESOURCES, model_text>>
    /\ IF ~req.is_json THEN
            /\ Return(JsonInputRequired)
            /\ UNCHANGED <<user_input, is_crisis, crisis_type, upstream,
                           generate_calls, classifier_calls>>
       ELSE IF req.body.type = "unparseable" \/ message_raises(req.body) THEN
            /\ Return(chat_except)
            /\ UNCHANGED <<user_input, is_crisis, crisis_type, upstream,
                           generate_calls, classifier_calls>>
       ELSE LET input == strip(message_of(req.body)) IN
            /\ user_input' = input
            /\ IF input = "" THEN
                    /\ Return(HereWhenReady)
                    /\ UNCHANGED <<is_crisis, crisis_type, upstream,
                                   generate_calls, classifier_calls>>
               ELSE LET crisis == is_crisis_message(input)
                        type   == IF crisis THEN select_crisis_type(input) ELSE None
                    IN
                    /\ is_crisis' = crisis
                    /\ crisis_type' = type
                    /\ IF crisis THEN
                            /\ classifier_calls' = classifier_calls + 1
                            /\ UNCHANGED <<upstream, generate_calls>>
                            /\ IF type \in DOMAIN CRISIS_RESOURCES
                               THEN Return(jsonify_chat(CRISIS_RESOURCES[type].response, crisis,
                                                        CRISIS_RESOURCES[type].resources))
                               ELSE Return(chat_except)
                       ELSE \* generate_response(user_input) checks for crisis again
                            /\ classifier_calls' = classifier_calls + 2
                            /\ IF is_crisis_message(input) THEN
                                    /\ UNCHANGED <<upstream, generate_calls>>
                                    /\ LET t == select_crisis_type(input) IN
                                       Return(jsonify_chat(
                                           IF t \in DOMAIN CRISIS_RESOURCES
                                           THEN CRISIS_RESOURCES[t].response
                                           ELSE generate_response_except,
                                           crisis, <<>>))
                               ELSE /\ upstream' = "pending"
                                    /\ generate_calls' = generate_calls + 1
                                    /\ pc' = "generating"
                                    /\ UNCHANGED replies

\* model.generate_content returns with response.text = text; generate_response
\* and chat() run to their return
GenerateReturns ==
    /\ pc = "generating"
    /\ upstream = "pending"
    /\ \E text \in ModelTexts :
        /\ model_text' = text
        /\ upstream' = "returned"
        /\ Return(jsonify_chat(generate_response_clean(text), is_crisis, <<>>))
    /\ UNCHANGED <<request, user_input, is_crisis, crisis_type, CRISIS_RESOURCES,
                   generate_calls, classifier_calls>>

\* model.generate_content (or the response.text accessor) raises
GenerateRaises ==
    /\ pc = "generating"
    /\ upstream = "pending"
    /\ upstream' = "raised"
    /\ Return(chat_after_raise(is_crisis))
    /\ UNCHANGED <<request, user_input, is_crisis, crisis_type, CRISIS_RESOURCES,
                   model_text, generate_calls, classifier_calls>>

\* the upstream service never answers the call: the call is issued without a
\* timeout, so nothing in the handler is enabled afterwards
GenerateStalls ==
    /\ pc = "generating"
    /\ upstream = "pending"
    /\ upstream' = "stalled"
    /\ UNCHANGED <<pc, request, user_input, is_crisis, crisis_type, CRISIS_RESOURCES,
                   model_text, generate_calls, classifier_calls, replies>>

Next ==
    \/ \E req \in Requests : Chat(req)
    \/ GenerateReturns
    \/ GenerateRaises
    \/ GenerateStalls

Spec == Init /\ [][Next]_vars

\* every step of the handler and of the upstream call that can be taken is taken
FairSpec == Spec /\ WF_vars(Next)

TypeOK ==
    /\ pc \in {"idle", "generating", "done"}
    /\ request \in Requests \cup {NoRequest}
    /\ is_crisis \in BOOLEAN
    /\ crisis_type \in {None, "suicide", "self-harm"}
    /\ upstream \in {"idle", "pending", "returned", "raised", "stalled"}
    /\ generate_calls \in 0..1
    /\ classifier_calls \in 0..2
    /\ Len(replies) \in 0..1

-----------------------------------------------------------------------------
(* Vocabulary of the properties *)

\* the request carries a JSON object whose message is a string
HasStringMessage ==
    /\ request.body.type = "object"
    /\ request.body.has_message
    /\ request.body.message.type = "string"

Msg == request.body.message.value

\* s contains one of the eight indicator substrings, letter case ignored
Flagged(s) ==
    \E k \in {"kill myself", "end it all", "want to die", "cut myself",
              "self harm", "hurt myself", "suicide", "ending my life"} :
        In(k, lower(s))

\* s contains one of the three suicide-category keywords, letter case ignored
SuicideWorded(s) == \E k \in {"suicide", "die", "end it"} : In(k, lower(s))

AllWhitespace(s) == \A i \in 1..Len(s) : Char(s, i) \in {" ", "\t", "\n"}

FullShape(r) == r.status = 200 /\ DOMAIN r.body = {"response", "is_crisis", "resources", "success"}

FallbackReply ==
    [status |-> 200,
     body   |-> [response  |-> "I'm having trouble responding. Could you rephrase that or try again later?",
                 is_crisis |-> FALSE, resources |-> <<>>, success |-> TRUE]]

-----------------------------------------------------------------------------
(* Properties *)

\* C1: a request whose trimmed message contains one of the eight crisis
\* indicators (any letter case) never causes a model.generate_content call,
\* at any point between its receipt and its reply.
C1_CrisisNeverGenerates ==
    (HasStringMessage /\ Flagged(strip(Msg))) => (generate_calls = 0 /\ upstream = "idle")

C1_Witness ==
    /\ pc = "done"
    /\ request.is_json /\ HasStringMessage /\ Flagged(strip(Msg))
    /\ Len(replies) = 1 /\ replies[1].status = 200 /\ replies[1].body.is_crisis
    /\ Msg = "KILL MYSELF"

\* C2: the message "I want to kill myself" is answered with is_crisis=true,
\* the response text of the "suicide" entry and the two suicide resources.
C2_KillMyselfGetsSuicideEntry ==
    (pc = "done" /\ request.is_json /\ HasStringMessage /\ Msg = "I want to kill myself")
        => replies = << [status |-> 200,
                         body   |-> [response  |-> SuicideResponse,
                                     is_crisis |-> TRUE,
                                     resources |-> <<"988 Suicide & Crisis Lifeline",
                                                     "Crisis Text Line: Text HOME to 741741">>,
                                     success   |-> TRUE]] >>

\* C3: when the generation model returns a text that is empty, whitespace-only
\* or blank once asterisk runs are removed and the text is trimmed, the reply
\* is the fixed fallback reply, and the reply text is never empty.
C3_BlankTextGetsFallback ==
    /\ (upstream = "returned" /\ strip(re_sub_asterisks(model_text)) = "")
            => replies = <<FallbackReply>>
    /\ \A i \in 1..Len(replies) :
            "response" \in DOMAIN replies[i].body => replies[i].body.response # ""

\* C4: when the generation call raises, chat still replies HTTP 200 with the
\* fallback text, is_crisis=false, resources=[] and success=true.
C4_RaiseGetsFallback ==
    upstream = "raised" => (pc = "done" /\ replies = <<FallbackReply>>)

C4_Witness ==
    /\ upstream = "raised"
    /\ request.is_json /\ HasStringMessage /\ ~Flagged(Msg) /\ ~AllWhitespace(Msg)
    /\ Len(replies) = 1

\* C5: a JSON request whose message is missing, empty or whitespace-only is
\* answered with HTTP 200 and "I'm here when you're ready to talk", and neither
\* is_crisis_message nor model.generate_content is ever invoked for it.
C5_EmptyMessageRequest ==
    /\ request.is_json
    /\ request.body.type = "object"
    /\ \/ ~request.body.has_message
       \/ request.body.message.type = "string" /\ AllWhitespace(Msg)

C5_EmptyNeverClassified ==
    C5_EmptyMessageRequest =>
        /\ classifier_calls = 0
        /\ generate_calls = 0
        /\ pc # "idle" =>
              /\ pc = "done"
              /\ replies = << [status |-> 200,
                               body |-> [response |-> "I'm here when you're ready to talk"]] >>

C5_Witness ==
    /\ pc = "done"
    /\ request.is_json /\ HasStringMessage /\ Msg = " \t"
    /\ Len(replies) = 1

\* C6: a flagged message has category "suicide" exactly when its lower-cased
\* text contains "suicide", "die" or "end it", and "self-harm" otherwise; a
\* message containing "suicide" in any case is flagged with category suicide;
\* a message containing "cut myself" and none of the three keywords is flagged
\* self-harm and gets the single Crisis Text Line resource.
C6_Classified == pc # "idle" /\ request.is_json /\ HasStringMessage

C6_CategoryRule ==
    C6_Classified =>
        /\ is_crisis =>
              /\ crisis_type = "suicide" <=> SuicideWorded(user_input)
              /\ crisis_type = "self-harm" <=> ~SuicideWorded(user_input)
        /\ In("suicide", lower(Msg)) => (is_crisis /\ crisis_type = "suicide")
        /\ (In("cut myself", lower(Msg)) /\ ~SuicideWorded(Msg)) =>
              /\ is_crisis
              /\ crisis_type = "self-harm"
              /\ Len(replies) = 1
              /\ replies[1].body.resources = <<"Crisis Text Line: Text HOME to 741741">>

C6_Witness ==
    /\ C6_Classified
    /\ In("cut myself", lower(Msg)) /\ ~SuicideWorded(Msg)
    /\ crisis_type = "self-harm"
    /\ Len(replies) = 1

\* C7: a message is flagged as crisis if and only if its lower-cased text
\* contains one of the eight indicator substrings.
C7_FlagRule ==
    classifier_calls > 0 => (is_crisis <=> Flagged(user_input))

C7_Witness ==
    /\ classifier_calls > 0
    /\ is_crisis
    /\ user_input = "ending my life"

\* C8: a JSON request whose handling raises outside the generation path
\* (unparseable body, body that is not an object, message that is not a
\* string) is answered with HTTP 500 and the "unable to respond" body; a
\* request that is not JSON is answered with HTTP 400 and "JSON input
\* required"; a request never has more than one reply and has exactly one
\* once its handling has ended.
C8_RaisesOutsideGeneration ==
    /\ request.is_json
    /\ \/ request.body.type # "object"
       \/ request.body.has_message /\ request.body.message.type # "string"

C9_EveryRequestReplied == <>(pc = "done")

\* C10: in every full-shape HTTP 200 reply success is true, resources is
\* non-empty exactly when is_crisis is true, and a crisis reply takes its text
\* and its resources from one and the same entry of the crisis resource table;
\* the table is never modified.
C10_FullReplyShape ==
    /\ CRISIS_RESOURCES = CrisisResourcesTable
    /\ \A i \in 1..Len(replies) :
          FullShape(replies[i]) =>
              LET b == replies[i].body IN
              /\ b.success = TRUE
              /\ b.resources # <<>> <=> b.is_crisis
              /\ b.is_crisis =>
                    \E k \in DOMAIN CrisisResourcesTable :
                        /\ b.response = CrisisResourcesTable[k].response
                        /\ b.resources = CrisisResourcesTable[k].resources

C10_Witness ==
    /\ Len(replies) = 1
    /\ FullShape(replies[1])
    /\ replies[1].body.is_crisis
    /\ replies[1].body.resources = CrisisResourcesTable["suicide"].resources

====
